---- MODULE Spec2Model ----
(***************************************************************************)
(* Model of app.py: a private Telegram bot that gates users through an     *)
(* allow-set, classifies each plain text message, stores one row per       *)
(* message in the SQLite table "checks" and answers with a card; /last     *)
(* lists the five newest rows of the sender.                               *)
(*                                                                         *)
(* A text is a sequence of characters; a character is a one-element token. *)
(* Tokens that are not ASCII are spelled out: "ARABIC_3" is U+0663         *)
(* (ARABIC-INDIC DIGIT THREE), "LONG_S" is U+017F (LATIN SMALL LETTER LONG *)
(* S), "EM_DASH" is U+2014.                                                *)
(***************************************************************************)
EXTENDS Integers, Sequences, FiniteSets, TLC

\* ------------------------------------------------------------------ bounds
\* Inbound events delivered by the transport in one run.
MaxEvents == 3
\* Inbound events of the history run (more texts of one user than LIMIT).
MaxHistory == 8
\* Longest run of digits among the classified texts (beyond the 20 of PERMIT_RE).
MaxDigits == 21

\* ------------------------------------------------------- program constants
\* "LIMIT 5" of the SELECT in cmd_last.
LIMIT == 5
\* r['payload'][:60] in cmd_last.
PAYLOAD_CUT == 60
\* \d{6,20} in PERMIT_RE.
PERMIT_MIN == 6
PERMIT_MAX == 20

\* ------------------------------------------------------------- characters
AsciiDigits == {"0", "1", "2", "3", "4", "5", "6", "7", "8", "9"}

\* What \d matches in a str pattern compiled without re.ASCII: every Unicode
\* decimal digit (category Nd), of which the model carries one beyond ASCII.
UnicodeDigits == AsciiDigits \cup {"ARABIC_3"}

\* What str.strip() removes (characters for which str.isspace() holds).
Whitespace == {" ", "\n", "\t"}

\* Simple case folding as re.IGNORECASE applies it to the letters of the
\* patterns: each letter matches both its cases, and "s" also matches U+017F.
Fold(c) ==
    CASE c = "H" -> "h" [] c = "T" -> "t" [] c = "P" -> "p" [] c = "S" -> "s"
      [] c = "LONG_S" -> "s"
      [] c = "U" -> "u" [] c = "N" -> "n" [] c = "I" -> "i" [] c = "A" -> "a"
      [] c = "R" -> "r" [] c = "M" -> "m" [] c = "E" -> "e" [] c = "F" -> "f"
      [] c = "L" -> "l"
      [] OTHER -> c

\* ---------------------------------------------------------------- strings
Take(s, n) == SubSeq(s, 1, IF n < Len(s) THEN n ELSE Len(s))

RECURSIVE Rep(_, _)
Rep(c, n) == IF n = 0 THEN <<>> ELSE <<c>> \o Rep(c, n - 1)

RECURSIVE lstrip(_)
lstrip(s) == IF s # <<>> /\ Head(s) \in Whitespace THEN lstrip(Tail(s)) ELSE s

RECURSIVE rstrip(_)
rstrip(s) ==
    IF s # <<>> /\ s[Len(s)] \in Whitespace THEN rstrip(SubSeq(s, 1, Len(s) - 1)) ELSE s

\* str.strip()
strip(s) == rstrip(lstrip(s))

\* The literal pattern characters pat match s at position i (1-based),
\* ignoring case.
MatchesAtI(s, i, pat) ==
    /\ i + Len(pat) - 1 <= Len(s)
    /\ \A k \in 1..Len(pat) : Fold(s[i + k - 1]) = pat[k]

AllDigits(s) == \A k \in 1..Len(s) : s[k] \in UnicodeDigits

\* URL_RE = re.compile(r"^https?://", re.I), used with .match
URL_RE(t) ==
    \/ MatchesAtI(t, 1, <<"h", "t", "t", "p", "s", ":", "/", "/">>)
    \/ MatchesAtI(t, 1, <<"h", "t", "t", "p", ":", "/", "/">>)

\* PERMIT_RE = re.compile(r"^\d{6,20}$"), used with .match; "$" matches at the
\* end of the string and also just before a newline that ends the string.
PERMIT_RE(t) ==
    \/ /\ Len(t) \in PERMIT_MIN..PERMIT_MAX
       /\ AllDigits(t)
    \/ /\ Len(t) - 1 \in PERMIT_MIN..PERMIT_MAX
       /\ t[Len(t)] = "\n"
       /\ AllDigits(SubSeq(t, 1, Len(t) - 1))

detect_type(text) ==
    LET t == strip(text)
    IN  IF URL_RE(t) THEN "listing_url"
        ELSE IF PERMIT_RE(t) THEN "permit_number"
        ELSE "text"

\* ------------------------------------------------------------- fake_lookup
DASH == <<"EM_DASH">>

UnitWords ==
    << <<"u", "n", "i", "t">>, <<"a", "p", "t">>,
       <<"a", "p", "a", "r", "t", "m", "e", "n", "t">>, <<"f", "l", "a", "t">> >>

UnitSeps == {"-", "_", "/", " "}

IsDigitAt(s, j) == j <= Len(s) /\ s[j] \in UnicodeDigits

\* Where group 2 starts when the alternative w matches at i, 0 when it does not:
\* the separator is optional, and at least one digit must follow.
DigitsStart(s, i, w) ==
    LET j == i + Len(w)
    IN  IF ~MatchesAtI(s, i, w) THEN 0
        ELSE IF j <= Len(s) /\ s[j] \in UnitSeps /\ IsDigitAt(s, j + 1) THEN j + 1
        ELSE IF IsDigitAt(s, j) THEN j
        ELSE 0

\* The alternatives are tried in the order they are written.
GroupStartAt(s, i) ==
    LET hits == {k \in 1..Len(UnitWords) : DigitsStart(s, i, UnitWords[k]) # 0}
    IN  IF hits = {} THEN 0
        ELSE DigitsStart(s, i, UnitWords[CHOOSE k \in hits : \A m \in hits : k <= m])

RECURSIVE DigitRun(_, _)
DigitRun(s, j) == IF IsDigitAt(s, j) THEN <<s[j]>> \o DigitRun(s, j + 1) ELSE <<>>

\* re.search(r"(unit|apt|apartment|flat)[\-_/ ]?(\d+)", text, re.I): group 2 of
\* the leftmost match, or DASH.
unit_number(text) ==
    LET starts == {i \in 1..Len(text) : GroupStartAt(text, i) # 0}
    IN  IF starts = {} THEN DASH
        ELSE DigitRun(text, GroupStartAt(text, CHOOSE i \in starts : \A m \in starts : i <= m))

fake_lookup(text, input_type) ==
    [unit_number |-> unit_number(text), building |-> DASH, project |-> DASH,
     community |-> DASH, permit_status |-> "unknown", input_type |-> input_type,
     flags |-> <<"No data source connected yet (MVP).">>]

format_card(check_id, result) ==
    [check_id |-> check_id, unit |-> result.unit_number, building |-> result.building,
     project |-> result.project, community |-> result.community,
     permit |-> result.permit_status, type |-> result.input_type, flags |-> result.flags]

\* ------------------------------------------------------------------ state
VARIABLES
    ALLOWED_USER_IDS,   \* the allow-set, filled once from the environment
    checks,             \* the rows of table "checks", in insertion order
    sqlite_sequence,    \* the AUTOINCREMENT counter SQLite keeps for "checks"
    now,                \* the reading of datetime.utcnow()
    task,               \* the handler coroutine running in each slot
    received            \* inbound updates dispatched so far

vars == <<ALLOWED_USER_IDS, checks, sqlite_sequence, now, task, received>>

\* Handler coroutines that can be in flight at once.
Slots == {1, 2}

\* Telegram user ids of the model; 0 stands for "no effective_user".
Users == {1, 2}

\* Values of the environment variable ALLOWED_USER_IDS: unset (open mode),
\* one user, every user of the model.
AllowSets == {{}, {1}, Users}

Kinds == {"start", "help", "last", "text"}

\* Readings of datetime.utcnow().
Instants == {0, 1}

\* Plain texts the transport delivers in the full model.
MainTexts == { <<" ", "a", "p", "t", "-", "7", "\n">>, Rep("1", PERMIT_MIN) }

REFUSAL == "Private bot."
START_TEXT == "Private Unit Bot / Plak een listing link of permit number. / Commands: /help /last"
HELP_TEXT == "Send: listing link, permit number / Commands: /last (laatste 5 checks)"
NO_CHECKS == "Nog geen checks."
LAST_HEADER == "Laatste checks:"
CARD == "(debug) your_user_id + card"

NoResult ==
    [unit_number |-> <<>>, building |-> <<>>, project |-> <<>>, community |-> <<>>,
     permit_status |-> "", input_type |-> "", flags |-> <<>>]

NoCard == format_card(0, NoResult)

\* The argument of one reply_text call.
StaticReply(t) == [body |-> t, user_id |-> 0, card |-> NoCard, lines |-> <<>>]

NoReply == StaticReply("")

\* Variant: the two numbers of the card change places.
CardReply_swapped(u, check_id, result) ==
    [body |-> CARD, user_id |-> check_id, card |-> format_card(u, result), lines |-> <<>>]

\* f"(debug) your_user_id={u.id}\n\n{format_card(check_id, result)}"
CardReply(u, check_id, result) ==
    [body |-> CARD, user_id |-> u, card |-> format_card(check_id, result), lines |-> <<>>]

\* f"#{r['id']} -- {r['payload'][:60]} ({r['created_at']})"
LastLine(r) == [id |-> r.id, payload |-> Take(r.payload, PAYLOAD_CUT), created_at |-> r.created_at]

LastReply(rows) ==
    [body |-> LAST_HEADER, user_id |-> 0, card |-> NoCard,
     lines |-> [i \in 1..Len(rows) |-> LastLine(rows[i])]]

IdleTask ==
    [kind |-> "none", has_user |-> FALSE, has_message |-> FALSE, user |-> 0, text |-> <<>>,
     pc |-> "idle", payload |-> <<>>, result |-> NoResult, created_at |-> 0,
     check_id |-> 0, rows |-> <<>>, out |-> NoReply, replies |-> <<>>,
     delivered |-> FALSE, error |-> "none", dbcalls |-> 0]

Terminal(t) == t.pc \in {"returned", "raised"}

\* ------------------------------------------------------------- AccessGate
\* Variant: nobody is refused.
is_allowed_everyone(user_id) == TRUE

\* Variant: an empty allow-set admits nobody.
is_allowed_membersOnly(user_id) == user_id \in ALLOWED_USER_IDS

is_allowed(user_id) == (ALLOWED_USER_IDS = {}) \/ (user_id \in ALLOWED_USER_IDS)

\* ------------------------------------------------------------------ Store
MaxRowid(rows) == IF rows = <<>> THEN 0 ELSE CHOOSE m \in {rows[i].id : i \in 1..Len(rows)} :
                                              \A i \in 1..Len(rows) : rows[i].id <= m

Max2(a, b) == IF a >= b THEN a ELSE b

\* Variant: the largest rowid is handed out again.
NextRowid_reuse(rows, seq) == Max2(seq, MaxRowid(rows))

\* INTEGER PRIMARY KEY AUTOINCREMENT: one more than the largest rowid the table
\* has ever held.
NextRowid(rows, seq) == Max2(seq, MaxRowid(rows)) + 1

\* INSERT INTO checks(user_id, payload, created_at) VALUES(?,?,?)
\* Variant: the new row replaces the newest one.
InsertRow_overwrite(rows, id, user_id, payload, created_at) ==
    IF rows = <<>> THEN <<[id |-> id, user_id |-> user_id, payload |-> payload, created_at |-> created_at]>>
    ELSE [rows EXCEPT ![Len(rows)] =
             [id |-> id, user_id |-> user_id, payload |-> payload, created_at |-> created_at]]

\* Variant: the row is never committed.
InsertRow_uncommitted(rows, id, user_id, payload, created_at) == rows

InsertRow(rows, id, user_id, payload, created_at) ==
    Append(rows, [id |-> id, user_id |-> user_id, payload |-> payload, created_at |-> created_at])

RECURSIVE OrderByIdDesc(_)
OrderByIdDesc(rows) ==
    IF rows = <<>> THEN <<>>
    ELSE LET top == CHOOSE i \in 1..Len(rows) : \A j \in 1..Len(rows) : rows[j].id <= rows[i].id
         IN  <<rows[top]>> \o OrderByIdDesc(SubSeq(rows, 1, top - 1) \o SubSeq(rows, top + 1, Len(rows)))

\* Variant: no ORDER BY ... DESC.
SelectRecent_oldestFirst(rows, user_id, limit) ==
    Take(SelectSeq(rows, LAMBDA r : r.user_id = user_id), limit)

\* SELECT id, payload, created_at FROM checks WHERE user_id=? ORDER BY id DESC LIMIT ?
SelectRecent(rows, user_id, limit) ==
    Take(OrderByIdDesc(SelectSeq(rows, LAMBDA r : r.user_id = user_id)), limit)

\* ------------------------------------------------------------------- Init
Init ==
    /\ ALLOWED_USER_IDS \in AllowSets
    /\ checks = <<>>
    /\ sqlite_sequence = 0
    /\ now = 0
    /\ task = [s \in Slots |-> IdleTask]
    /\ received = 0

\* ---------------------------------------------------------------- actions
Free(s) == task[s].pc = "idle" \/ Terminal(task[s])

\* webhook -> process_update: the update is dispatched to the handler of its
\* kind, which starts running in the first free slot (slots are interchangeable).
Receive(s, kind, has_user, has_message, u, text) ==
    /\ Free(s)
    /\ \A r \in Slots : r < s => ~Free(r)
    /\ task' = [task EXCEPT ![s] =
                   [IdleTask EXCEPT !.kind = kind, !.has_user = has_user,
                                    !.has_message = has_message, !.user = u,
                                    !.text = text, !.pc = "entry"]]
    /\ received' = received + 1
    /\ UNCHANGED <<ALLOWED_USER_IDS, checks, sqlite_sequence, now>>

\* Variant: the message is not looked at.
Malformed_noUserOnly(t) == ~t.has_user

\* "if not u or not update.message"
Malformed(t) == ~t.has_user \/ ~t.has_message

\* The head every handler shares: return on a missing user or message, refuse
\* a user who is not allowed.
DropEvent(s) ==
    /\ task[s].pc = "entry"
    /\ Malformed(task[s])
    /\ task' = [task EXCEPT ![s].pc = "returned"]
    /\ UNCHANGED <<ALLOWED_USER_IDS, checks, sqlite_sequence, now, received>>

Refuse(s) ==
    /\ task[s].pc = "entry"
    /\ ~Malformed(task[s])
    /\ ~is_allowed(task[s].user)
    /\ task' = [task EXCEPT ![s].pc = "reply", ![s].out = StaticReply(REFUSAL)]
    /\ UNCHANGED <<ALLOWED_USER_IDS, checks, sqlite_sequence, now, received>>

Admitted(s, kind) ==
    /\ task[s].pc = "entry"
    /\ task[s].kind = kind
    /\ ~Malformed(task[s])
    /\ is_allowed(task[s].user)

\* cmd_start, allowed user: the welcome text is handed to reply_text.
StartAllowed(s) ==
    /\ Admitted(s, "start")
    /\ task' = [task EXCEPT ![s].pc = "reply", ![s].out = StaticReply(START_TEXT)]
    /\ UNCHANGED <<ALLOWED_USER_IDS, checks, sqlite_sequence, now, received>>

\* cmd_help, allowed user.
HelpAllowed(s) ==
    /\ Admitted(s, "help")
    /\ task' = [task EXCEPT ![s].pc = "reply", ![s].out = StaticReply(HELP_TEXT)]
    /\ UNCHANGED <<ALLOWED_USER_IDS, checks, sqlite_sequence, now, received>>

\* cmd_last, allowed user: on to the SELECT.
LastAllowed(s) ==
    /\ Admitted(s, "last")
    /\ task' = [task EXCEPT ![s].pc = "db"]
    /\ UNCHANGED <<ALLOWED_USER_IDS, checks, sqlite_sequence, now, received>>

\* on_text, allowed user: strip, classify, look up, read the clock, which has
\* not gone back since it was last read.
TextPayload(text) == strip(text)

TextAllowed(s) ==
    /\ Admitted(s, "text")
    /\ \E utcnow \in {c \in Instants : c >= now} :
          /\ now' = utcnow
          /\ LET payload == TextPayload(task[s].text)
             IN  task' = [task EXCEPT ![s].pc = "db",
                                      ![s].payload = payload,
                                      ![s].result = fake_lookup(payload, detect_type(payload)),
                                      ![s].created_at = utcnow]
    /\ UNCHANGED <<ALLOWED_USER_IDS, checks, sqlite_sequence, received>>

\* cmd_last: the SELECT returns its rows; the reply is built from them.
SelectOk(s) ==
    /\ task[s].pc = "db" /\ task[s].kind = "last"
    /\ LET rows == SelectRecent(checks, task[s].user, LIMIT)
       IN  task' = [task EXCEPT ![s].pc = "reply",
                                ![s].rows = rows,
                                ![s].dbcalls = @ + 1,
                                ![s].out = IF rows = <<>> THEN StaticReply(NO_CHECKS)
                                           ELSE LastReply(rows)]
    /\ UNCHANGED <<ALLOWED_USER_IDS, checks, sqlite_sequence, now, received>>

\* on_text: INSERT and commit succeed in one transaction; cur.lastrowid is the
\* id of the row this connection inserted.
InsertOk(s) ==
    /\ task[s].pc = "db" /\ task[s].kind = "text"
    /\ LET id == NextRowid(checks, sqlite_sequence)
           check_id == id
       IN  /\ checks' = InsertRow(checks, id, task[s].user, task[s].payload, task[s].created_at)
           /\ sqlite_sequence' = id
           /\ task' = [task EXCEPT ![s].pc = "reply",
                                    ![s].check_id = check_id,
                                    ![s].dbcalls = @ + 1,
                                    ![s].out = CardReply(task[s].user, check_id, task[s].result)]
    /\ UNCHANGED <<ALLOWED_USER_IDS, now, received>>

\* Variant: the failing transaction leaves its row behind.
DbFail_noRollback(s) ==
    /\ task[s].pc = "db"
    /\ task' = [task EXCEPT ![s].pc = "raised", ![s].error = "storage", ![s].dbcalls = @ + 1]
    /\ checks' = IF task[s].kind = "text"
                 THEN InsertRow(checks, Len(checks) + 1, task[s].user, task[s].payload,
                                task[s].created_at)
                 ELSE checks
    /\ UNCHANGED <<ALLOWED_USER_IDS, sqlite_sequence, now, received>>

\* sqlite3 raises in connect, execute, commit or fetchall: the with-block
\* rolls back and the exception leaves the handler.
DbFail(s) ==
    /\ task[s].pc = "db"
    /\ task' = [task EXCEPT ![s].pc = "raised", ![s].error = "storage", ![s].dbcalls = @ + 1]
    /\ UNCHANGED <<ALLOWED_USER_IDS, checks, sqlite_sequence, now, received>>

\* await update.message.reply_text(out) returns.
ReplyOk(s) ==
    /\ task[s].pc = "reply"
    /\ task' = [task EXCEPT ![s].pc = "returned",
                             ![s].replies = Append(@, task[s].out),
                             ![s].delivered = TRUE]
    /\ UNCHANGED <<ALLOWED_USER_IDS, checks, sqlite_sequence, now, received>>

\* await update.message.reply_text(out) raises (telegram.error.TelegramError).
ReplyFail(s) ==
    /\ task[s].pc = "reply"
    /\ task' = [task EXCEPT ![s].pc = "raised",
                             ![s].replies = Append(@, task[s].out),
                             ![s].error = "delivery"]
    /\ UNCHANGED <<ALLOWED_USER_IDS, checks, sqlite_sequence, now, received>>

\* One step of the handler in slot s.
Step(s) ==
    \/ DropEvent(s) \/ Refuse(s)
    \/ StartAllowed(s) \/ HelpAllowed(s) \/ LastAllowed(s) \/ TextAllowed(s)
    \/ SelectOk(s) \/ InsertOk(s) \/ DbFail(s)
    \/ ReplyOk(s) \/ ReplyFail(s)

\* An update with both a user and a message, or with one of them missing.
ReceiveAny(s) ==
    /\ received < MaxEvents
    /\ \/ \E kind \in Kinds \ {"text"}, u \in Users : Receive(s, kind, TRUE, TRUE, u, <<>>)
       \/ \E u \in Users, text \in MainTexts : Receive(s, "text", TRUE, TRUE, u, text)
       \/ \E kind \in Kinds : Receive(s, kind, FALSE, TRUE, 0, <<>>)
       \/ \E kind \in Kinds, u \in Users : Receive(s, kind, TRUE, FALSE, u, <<>>)

Next ==
    \/ \E s \in Slots : ReceiveAny(s)
    \/ \E s \in Slots : Step(s)

Spec == Init /\ [][Next]_vars

\* ------------------------------------------------------------ /last runs
\* A text longer than the cut of cmd_last.
HistoryText == Rep("x", PAYLOAD_CUT + 1)

\* Texts and /last commands of both users, one handler at a time.
ReceiveHistory(s) ==
    /\ received < MaxHistory
    /\ s = 1
    /\ \/ \E u \in Users : Receive(s, "text", TRUE, TRUE, u, HistoryText)
       \/ \E u \in Users : Receive(s, "last", TRUE, TRUE, u, <<>>)

StepHistory(s) ==
    \/ Refuse(s) \/ LastAllowed(s) \/ TextAllowed(s)
    \/ SelectOk(s) \/ InsertOk(s) \/ DbFail(s)
    \/ ReplyOk(s) \/ ReplyFail(s)

NextHistory ==
    \/ \E s \in Slots : ReceiveHistory(s)
    \/ \E s \in Slots : StepHistory(s)

SpecHistory == Init /\ [][NextHistory]_vars

\* ------------------------------------------------------ classification runs
Pad(t) == {t, <<" ">> \o t \o <<"\n">>, <<"\t">> \o t, t \o <<" ", " ">>}

DigitTexts ==
    UNION {{Rep("1", n), Rep("7", n) \o <<"0">>, Rep("1", n) \o <<"ARABIC_3">>,
            Rep("ARABIC_3", n), Rep("1", n) \o <<"a">>, <<"-">> \o Rep("1", n),
            Rep("1", n) \o <<" ">> \o Rep("1", n), Rep("1", n) \o <<"\n", "2">>}
           : n \in 0..MaxDigits}

UrlHeads ==
    {<<"h", "t", "t", "p", ":", "/", "/">>, <<"h", "t", "t", "p", "s", ":", "/", "/">>,
     <<"H", "T", "T", "P", ":", "/", "/">>, <<"H", "t", "T", "p", "S", ":", "/", "/">>,
     <<"h", "t", "t", "p", "LONG_S", ":", "/", "/">>,
     <<"h", "t", "t", "p", ":", "/">>, <<"h", "t", "t", "p", "s", ":", "/">>,
     <<"h", "t", "t", "p", "s", "s", ":", "/", "/">>, <<"h", "t", "p", ":", "/", "/">>,
     <<"f", "t", "p", ":", "/", "/">>, <<"h", "t", "t", "p", "/", "/">>,
     <<"x", "h", "t", "t", "p", ":", "/", "/">>, <<"h", "t", "t", "p", " ", ":", "/", "/">>}

UrlTails == {<<>>, <<"a">>, Rep("1", PERMIT_MIN), <<"u", "n", "i", "t", "_", "4", "2">>}

ClassifyTexts ==
    UNION {Pad(t) : t \in DigitTexts \cup {h \o r : h \in UrlHeads, r \in UrlTails}}

\* One text of an allowed user per run.
ReceiveClassify(s) ==
    /\ received = 0
    /\ s = 1
    /\ \E text \in ClassifyTexts : Receive(s, "text", TRUE, TRUE, 1, text)

NextClassify ==
    \/ \E s \in Slots : ReceiveClassify(s)
    \/ \E s \in Slots : TextAllowed(s) \/ InsertOk(s) \/ ReplyOk(s)

SpecClassify == Init /\ [][NextClassify]_vars

\* ================================================================= claims
\* The claims speak of users in their own words, not through is_allowed.
NotAllowedUser(u) == ALLOWED_USER_IDS # {} /\ u \notin ALLOWED_USER_IDS

AllowedUser(u) == ~NotAllowedUser(u)

WellFormed(t) == t.pc # "idle" /\ t.has_user /\ t.has_message

\* The handler in slot s takes a step (a new update taking the slot is none).
Moves(s) == task'[s] # task[s] /\ task[s].pc \notin {"idle", "returned", "raised"}

StoreUnchanged == checks' = checks /\ sqlite_sequence' = sqlite_sequence

IsPrefix(a, b) == Len(a) <= Len(b) /\ \A i \in 1..Len(a) : b[i] = a[i]

\* C1: a handler of any kind for a user who is not allowed (allow-set not
\* empty, user not in it) calls reply_text once, with exactly the refusal
\* string, never touches the database, and none of its steps changes the Store.
C1_RefusedOnly ==
    [][\A s \in Slots :
          (WellFormed(task'[s]) /\ NotAllowedUser(task'[s].user)) =>
              /\ task'[s].dbcalls = 0
              /\ task'[s].check_id = 0
              /\ task'[s].pc \in {"entry", "reply", "returned", "raised"}
              /\ task'[s].pc = "reply" => task'[s].out = StaticReply(REFUSAL)
              /\ task'[s].pc \in {"entry", "reply"} => task'[s].replies = <<>>
              /\ Terminal(task'[s]) => task'[s].replies = <<StaticReply(REFUSAL)>>
              /\ Moves(s) => StoreUnchanged]_vars

C1_Witness ==
    \E s, r \in Slots :
        /\ s # r
        /\ WellFormed(task[s]) /\ task[s].kind = "text" /\ NotAllowedUser(task[s].user)
        /\ task[s].pc = "returned" /\ task[s].delivered
        /\ WellFormed(task[r]) /\ task[r].kind = "last" /\ NotAllowedUser(task[r].user)
        /\ task[r].pc = "returned"
        /\ checks # <<>>

\* C2: the ids of the rows are pairwise distinct and grow in insertion order.
C2_IdsIncrease ==
    \A i, j \in 1..Len(checks) : i < j => checks[i].id < checks[j].id

\* Two handlers have both inserted and neither has replied yet.
C2_Witness ==
    /\ Len(checks) >= 2
    /\ \E s, r \in Slots :
          /\ s # r
          /\ task[s].kind = "text" /\ task[s].pc = "reply"
          /\ task[r].kind = "text" /\ task[r].pc = "reply"
          /\ task[s].user = task[r].user

\* What is left of text once the white space at both ends is removed.
IsTrimOf(payload, text) ==
    /\ payload = <<>> \/ (payload[1] \notin Whitespace /\ payload[Len(payload)] \notin Whitespace)
    /\ \E a \in 0..Len(text) :
          /\ a + Len(payload) <= Len(text)
          /\ SubSeq(text, a + 1, a + Len(payload)) = payload
          /\ \A k \in (1..a) \cup ((a + Len(payload) + 1)..Len(text)) : text[k] \in Whitespace

\* C3: the INSERT of a text handler appends exactly one row, with the sender's
\* id and the trimmed text, and fixes the card to carry the id of that row; the
\* card does not change until it is sent, and it is sent only after the INSERT,
\* when exactly one row carries its id and that row is the sender's.
C3_ReplyCarriesOwnId ==
    [][\A s \in Slots :
          /\ (Moves(s) /\ task[s].kind = "text" /\ task[s].pc = "db" /\ task'[s].pc = "reply") =>
                /\ Len(checks') = Len(checks) + 1
                /\ IsPrefix(checks, checks')
                /\ checks'[Len(checks')].user_id = task[s].user
                /\ IsTrimOf(checks'[Len(checks')].payload, task[s].text)
                /\ task'[s].out.body = CARD
                /\ task'[s].out.card.check_id = checks'[Len(checks')].id
                /\ \A i \in 1..Len(checks) : checks[i].id # checks'[Len(checks')].id
          /\ (task[s].kind = "text" /\ task[s].pc = "reply" /\ task'[s].pc = "reply") =>
                task'[s].out = task[s].out
          /\ (Moves(s) /\ task[s].kind = "text" /\ AllowedUser(task[s].user)
                /\ task'[s].replies # task[s].replies) =>
                /\ task'[s].replies = <<task[s].out>>
                /\ task[s].out.body = CARD
                /\ Cardinality({i \in 1..Len(checks) :
                                    checks[i].id = task[s].out.card.check_id}) = 1
                /\ \A i \in 1..Len(checks) :
                      checks[i].id = task[s].out.card.check_id =>
                          /\ checks[i].user_id = task[s].user
                          /\ IsTrimOf(checks[i].payload, task[s].text)]_vars

\* A handler that inserted after another one has replied while the other,
\* still running, has not.
C3_Witness ==
    \E s, r \in Slots :
        /\ s # r
        /\ task[s].kind = "text" /\ task[s].delivered
        /\ task[s].payload # task[s].text
        /\ task[r].kind = "text" /\ task[r].pc = "reply"
        /\ task[r].check_id # 0 /\ task[r].check_id < task[s].check_id

Min2(a, b) == IF a <= b THEN a ELSE b

\* What the claim says /last answers to user u over the rows.
LastAnswerIsRight(out, rows, u) ==
    LET mine == {i \in 1..Len(rows) : rows[i].user_id = u}
        listed == {out.lines[k].id : k \in 1..Len(out.lines)}
    IN  /\ (out = StaticReply(NO_CHECKS)) <=> (mine = {})
        /\ mine # {} =>
              /\ out.body = LAST_HEADER
              /\ Len(out.lines) = Min2(LIMIT, Cardinality(mine))
              /\ \A k \in 1..(Len(out.lines) - 1) : out.lines[k].id > out.lines[k + 1].id
              /\ listed \subseteq {rows[i].id : i \in mine}
              /\ \A i \in mine : rows[i].id \notin listed =>
                                     \A l \in listed : rows[i].id < l

\* C4: the reply cmd_last builds from its SELECT is "Nog geen checks." exactly
\* when the user has no row; otherwise it lists the min(5, n) rows of the user
\* with the largest ids, newest first, and no row of anybody else.
C4_LastListsNewestFive ==
    [][\A s \in Slots :
          (Moves(s) /\ task[s].kind = "last" /\ task[s].pc = "db" /\ task'[s].pc = "reply") =>
              /\ AllowedUser(task[s].user)
              /\ LastAnswerIsRight(task'[s].out, checks, task[s].user)]_vars

\* /last has listed five of the user's six or more rows, among rows of others.
C4_Witness ==
    \E s \in Slots :
        /\ task[s].kind = "last" /\ task[s].delivered
        /\ Len(task[s].replies[1].lines) = LIMIT
        /\ Cardinality({i \in 1..Len(checks) : checks[i].user_id = task[s].user}) > LIMIT
        /\ \E i \in 1..Len(checks) : checks[i].user_id # task[s].user
        /\ checks[1].user_id = task[s].user

\* The claim's classes of characters: ASCII digits only.
ClaimedPermit(t) ==
    /\ Len(t) \in PERMIT_MIN..PERMIT_MAX
    /\ \A k \in 1..Len(t) : t[k] \in AsciiDigits

ClaimedUrl(t) ==
    \/ MatchesAtI(t, 1, <<"h", "t", "t", "p", ":", "/", "/">>)
    \/ MatchesAtI(t, 1, <<"h", "t", "t", "p", "s", ":", "/", "/">>)

ClaimedType(text) ==
    LET t == CHOOSE p \in {SubSeq(text, a, b) : a \in 1..(Len(text) + 1), b \in 0..Len(text)} :
                 IsTrimOf(p, text)
    IN  IF ClaimedUrl(t) THEN "listing_url"
        ELSE IF ClaimedPermit(t) THEN "permit_number"
        ELSE "text"

\* C5: the type on_text computed for a text is listing_url when the trimmed
\* text starts with http:// or https:// in any letter case, else permit_number
\* exactly when it is 6 to 20 ASCII digits and nothing else, else text.
C5_ClassifyAsciiDigits ==
    \A s \in Slots :
        (task[s].kind = "text" /\ task[s].pc \in {"db", "reply", "returned", "raised"}
           /\ WellFormed(task[s]) /\ AllowedUser(task[s].user)) =>
            task[s].result.input_type = ClaimedType(task[s].text)

\* C6: is_allowed answers TRUE to everybody when the allow-set is empty and
\* otherwise exactly to its members, every handler is gated by that answer,
\* and no step changes the allow-set.
C6_GateFixed ==
    [][/\ ALLOWED_USER_IDS' = ALLOWED_USER_IDS
       /\ \A u \in Users \cup {0} :
             /\ is_allowed(u) = (IF ALLOWED_USER_IDS = {} THEN TRUE ELSE u \in ALLOWED_USER_IDS)
             /\ is_allowed(u)' = is_allowed(u)
       /\ \A s \in Slots :
             (WellFormed(task'[s]) /\ task'[s].pc # "entry") =>
                 (((task'[s].out = StaticReply(REFUSAL)))
                     <=> (ALLOWED_USER_IDS # {} /\ task'[s].user \notin ALLOWED_USER_IDS))]_vars

\* One user has been refused and another admitted under the same allow-set.
C6_Witness ==
    \E s, r \in Slots :
        /\ ALLOWED_USER_IDS # {}
        /\ WellFormed(task[s]) /\ task[s].replies = <<StaticReply(REFUSAL)>>
        /\ WellFormed(task[r]) /\ task[r].delivered
        /\ task[r].replies # <<StaticReply(REFUSAL)>>
        /\ task[r].kind = task[s].kind

\* C7: when sqlite3 fails in a handler, the handler stops with the exception
\* at once: it has called the database once, sent no reply, the Store is as it
\* was before the failing call, and the handler takes no further step.
C7_StorageFailureFailsClosed ==
    [][\A s \in Slots :
          /\ (task'[s].error = "storage" /\ task'[s] # task[s]) =>
                /\ task[s].pc = "db"
                /\ StoreUnchanged
                /\ task'[s].pc = "raised"
                /\ task'[s].replies = <<>>
                /\ ~task'[s].delivered
                /\ task'[s].dbcalls = 1
                /\ task'[s].check_id = 0
          /\ task[s].error = "storage" => ~Moves(s)]_vars

\* The INSERT of one handler and the SELECT of another have failed.
C7_Witness ==
    \E s, r \in Slots :
        /\ task[s].kind = "text" /\ task[s].error = "storage"
        /\ task[r].kind = "last" /\ task[r].error = "storage"

\* A row of the Store carries the id the handler got from its INSERT.
Persisted(t) == \E i \in 1..Len(checks) : t.check_id # 0 /\ checks[i].id = t.check_id

TextOfAllowed(t) == WellFormed(t) /\ t.kind = "text" /\ AllowedUser(t.user)

\* C8, as claimed: a finished text handler of an allowed user has either both
\* stored the row and delivered the card, or neither.
C8_AllOrNothing ==
    \A s \in Slots :
        (TextOfAllowed(task[s]) /\ Terminal(task[s])) =>
            (Persisted(task[s]) <=> task[s].delivered)

\* C8, amended: a finished text handler of an allowed user is in one of three
\* states: row stored and card delivered; neither, after a storage failure;
\* or row stored and card not delivered, after reply_text raised. A card is
\* never delivered without its row.
C8_ReplyImpliesPersisted ==
    \A s \in Slots :
        (TextOfAllowed(task[s]) /\ Terminal(task[s])) =>
            /\ task[s].delivered => Persisted(task[s])
            /\ task[s].error = "storage" <=> ~Persisted(task[s])
            /\ task[s].error = "delivery" <=> (Persisted(task[s]) /\ ~task[s].delivered)
            /\ task[s].error = "none" <=> task[s].delivered

\* The row is committed and reply_text has raised.
C8_Witness ==
    \E s \in Slots :
        /\ TextOfAllowed(task[s]) /\ task[s].pc = "raised"
        /\ task[s].error = "delivery" /\ Persisted(task[s])

\* C9: a handler of any kind whose update lacks the user or the message
\* returns at once: no reply, no database call, no exception, and its step
\* leaves the Store unchanged.
C9_MalformedDropped ==
    [][\A s \in Slots :
          (task'[s].pc # "idle" /\ (~task'[s].has_user \/ ~task'[s].has_message)) =>
              /\ task'[s].pc \in {"entry", "returned"}
              /\ task'[s].replies = <<>>
              /\ ~task'[s].delivered
              /\ task'[s].dbcalls = 0
              /\ task'[s].error = "none"
              /\ task'[s].check_id = 0 /\ task'[s].rows = <<>>
              /\ Moves(s) => StoreUnchanged]_vars

\* An update without user and one without message have been dropped while the
\* Store holds a row.
C9_Witness ==
    \E s, r \in Slots :
        /\ task[s].pc = "returned" /\ ~task[s].has_user /\ task[s].kind = "text"
        /\ task[r].pc = "returned" /\ ~task[r].has_message /\ task[r].kind = "last"
        /\ AllowedUser(task[r].user)
        /\ checks # <<>>

\* C10: every step keeps the rows it found as a prefix of the rows it leaves;
\* the only step that adds anything is the INSERT of a text handler of an
\* allowed user, which adds one row; steps of /start, /help and /last leave the
\* Store unchanged.
C10_AppendOnly ==
    [][/\ IsPrefix(checks, checks')
       /\ checks' # checks =>
             /\ Len(checks') = Len(checks) + 1
             /\ \E s \in Slots :
                   /\ Moves(s) /\ TextOfAllowed(task[s])
                   /\ task[s].pc = "db" /\ task'[s].pc = "reply"
       /\ \A s \in Slots :
             (Moves(s) /\ task[s].kind \in {"start", "help", "last"}) => StoreUnchanged]_vars

\* The Store holds rows and a /last over them has been answered.
C10_Witness ==
    /\ Len(checks) >= 2
    /\ \E s \in Slots : task[s].kind = "last" /\ task[s].delivered /\ task[s].rows # <<>>

====
